---- MODULE Spec2Model ----
(***************************************************************************)
(* Model of lcb_runner/runner/custom_evaluator.py: the code sanitizer      *)
(* (clean_code_output, is_valid_python) and the batch pipeline of main().  *)
(*                                                                         *)
(* A Python str is a sequence of one-character strings.  A JSON value that *)
(* can stand where a candidate is expected is a record [t, s]: t = "str"   *)
(* with its characters s, or t = "num" (a JSON number, s empty).           *)
(***************************************************************************)
EXTENDS Integers, Sequences, FiniteSets, TLC

VARIABLES
    \* ---- sanitizer harness (SpecClean)
    text,             \* the input of clean_code_output
    cleaned,          \* clean_code_output(text)
    cleaned2,         \* clean_code_output(cleaned)
    cpc,              \* "start" | "once" | "twice" | "off"
    \* ---- pipeline of main() (Spec)
    scenario,         \* args.scenario
    benchmark,        \* build_prompt_benchmark(args)[0]: sequence of question ids
    file,             \* the JSON document at args.custom_output_file
    custom_outputs,   \* the local variable custom_outputs
    prefilter,        \* custom_outputs as it entered the validity filter
    save_results,     \* the local variable save_results
    combined_results, \* the local variable combined_results
    graded,           \* the local variable graded
    metadatas,        \* the local variable metadatas (code-generation only)
    save_eval_results,\* the local variable save_eval_results
    written,          \* the three output files, or "none" before they exist
    err,              \* the exception that ended the run, "" if none
    pc                \* position in main()

cleanVars == <<text, cleaned, cleaned2, cpc>>
mainVars == <<scenario, benchmark, file, custom_outputs, prefilter, save_results,
              combined_results, graded, metadatas, save_eval_results, written,
              err, pc>>
vars == <<text, cleaned, cleaned2, cpc, scenario, benchmark, file, custom_outputs,
          prefilter, save_results, combined_results, graded, metadatas,
          save_eval_results, written, err, pc>>

----------------------------------------------------------------------------
\* Bounds of the model.

\* number of fragments an input text of the sanitizer harness is built from
MaxFrags == 5
\* number of records in the candidate file
MaxRecs == 2
\* number of benchmark instances
MaxBench == 2

----------------------------------------------------------------------------
\* Characters and strings.

NL == "\n"
\* the backtick character (written by name: the lexer reserves the sign itself)
BT == "BACKTICK"

\* a lone surrogate code point (a JSON \udc80 escape), which no codec encodes
SUR == "SURROGATE"

\* the literal prefix of the pattern at line 25: three backticks, python, newline
FenceOpen == <<BT, BT, BT, "p", "y", "t", "h", "o", "n", NL>>
\* the literal suffix of the pattern at line 25: newline, three backticks
FenceClose == <<NL, BT, BT, BT>>

\* the characters str.strip() removes, among those the model's texts hold
Whitespace == {" ", NL}

\* pat occurs in code at position i
MatchesAt(pat, code, i) ==
    /\ i >= 1
    /\ i + Len(pat) - 1 <= Len(code)
    /\ \A k \in 1..Len(pat) : code[i + k - 1] = pat[k]

RECURSIVE LazyEnd(_, _)
\* the lazy group (.*?) with re.DOTALL, followed by the closing literal: the
\* group grows one character at a time from position j until the closing
\* literal matches; 0 when it never does.
LazyEnd(code, j) ==
    IF j > Len(code) THEN 0
    ELSE IF MatchesAt(FenceClose, code, j) THEN j
    ELSE LazyEnd(code, j + 1)

RECURSIVE GreedyEnd(_, _)
\* what (.*) would do instead of (.*?): the last closing literal
GreedyEnd(code, j) ==
    IF j > Len(code) THEN 0
    ELSE IF GreedyEnd(code, j + 1) # 0 THEN GreedyEnd(code, j + 1)
    ELSE IF MatchesAt(FenceClose, code, j) THEN j
    ELSE 0

RECURSIVE SearchFrom(_, _)
\* re.search tries each start position from the left
SearchFrom(code, i) ==
    IF i > Len(code) THEN [matched |-> FALSE, group1 |-> <<>>]
    ELSE IF /\ MatchesAt(FenceOpen, code, i)
            /\ LazyEnd(code, i + Len(FenceOpen)) # 0
         THEN [matched |-> TRUE,
               group1 |-> SubSeq(code, i + Len(FenceOpen),
                                 LazyEnd(code, i + Len(FenceOpen)) - 1)]
    ELSE SearchFrom(code, i + 1)

RECURSIVE SearchFromGreedy(_, _)
SearchFromGreedy(code, i) ==
    IF i > Len(code) THEN [matched |-> FALSE, group1 |-> <<>>]
    ELSE IF /\ MatchesAt(FenceOpen, code, i)
            /\ GreedyEnd(code, i + Len(FenceOpen)) # 0
         THEN [matched |-> TRUE,
               group1 |-> SubSeq(code, i + Len(FenceOpen),
                                 GreedyEnd(code, i + Len(FenceOpen)) - 1)]
    ELSE SearchFromGreedy(code, i + 1)

re_search_greedy(code) == SearchFromGreedy(code, 1)

\* re.search of the fence pattern in code with re.DOTALL, line 25
re_search(code) == SearchFrom(code, 1)

RECURSIVE lstrip(_)
lstrip(s) ==
    IF s # <<>> /\ Head(s) \in Whitespace THEN lstrip(Tail(s)) ELSE s

RECURSIVE rstrip(_)
rstrip(s) ==
    IF s # <<>> /\ s[Len(s)] \in Whitespace
    THEN rstrip(SubSeq(s, 1, Len(s) - 1))
    ELSE s

\* str.strip()
strip(s) == rstrip(lstrip(s))

\* a sanitizer that returns the fenced content as it stands and trims only
\* text that holds no fence
clean_code_output_untrimmed(code) ==
    LET match == re_search(code)
    IN  IF match.matched THEN match.group1 ELSE strip(code)

\* clean_code_output, lines 17-32
clean_code_output(code) ==
    LET match == re_search(code)
        inner == IF match.matched THEN match.group1 ELSE code
    IN  strip(inner)

----------------------------------------------------------------------------
\* Candidate values and ast.parse.

\* a JSON string as a candidate value
S(chars) == [t |-> "str", s |-> chars]
\* a JSON number as a candidate value
Num == [t |-> "num", s |-> <<>>]

\* the characters of identifiers in the model's texts; the texts spell no
\* Python keyword and hold no digit
Letters == {"x", "p", "y", "t", "h", "o", "n", "q", "u", "e", "s", "i", "d",
            "c", "l", "r", "_"}

RECURSIVE SplitOn(_, _, _)
\* str.split(sep) for a one-character sep: acc is the segment being read
SplitOn(s, sep, acc) ==
    IF s = <<>> THEN <<acc>>
    ELSE IF Head(s) = sep THEN <<acc>> \o SplitOn(Tail(s), sep, <<>>)
    ELSE SplitOn(Tail(s), sep, Append(acc, Head(s)))

\* a source line the parser accepts at module level: blank, or one name at
\* column 0, trailing spaces allowed (two names in a row, an indented first
\* statement, a backtick or an unclosed parenthesis are syntax errors)
LineOk(line) ==
    LET body == rstrip(line)
    IN  \/ \A k \in 1..Len(line) : line[k] = " "
        \/ /\ body # <<>>
           /\ \A k \in 1..Len(body) : body[k] \in Letters

\* ast.parse(code), line 41: "ok" when it returns a tree, else the name of the
\* exception it raises.  compile() rejects a value that is no str with
\* TypeError, and a str it cannot encode as UTF-8 with UnicodeEncodeError,
\* before any parsing.
ParseOutcome(v) ==
    IF v.t # "str" THEN "TypeError"
    ELSE IF \E k \in 1..Len(v.s) : v.s[k] = SUR THEN "UnicodeEncodeError"
    ELSE IF \A k \in 1..Len(SplitOn(v.s, NL, <<>>)) :
                LineOk(SplitOn(v.s, NL, <<>>)[k])
         THEN "ok"
    ELSE "SyntaxError"

\* is_valid_python, lines 35-44: the value returned, or the exception that
\* leaves the function (only SyntaxError is caught)
is_valid_python(v) ==
    IF ParseOutcome(v) = "ok" THEN [raised |-> "", value |-> TRUE]
    ELSE IF ParseOutcome(v) = "SyntaxError" THEN [raised |-> "", value |-> FALSE]
    ELSE [raised |-> ParseOutcome(v), value |-> FALSE]

----------------------------------------------------------------------------
\* Integers, their decimal strings, and string order.

Digits == <<"0", "1", "2", "3", "4", "5", "6", "7", "8", "9">>

RECURSIVE Str(_)
\* str(n) for a non-negative int n
Str(n) == IF n < 10 THEN <<Digits[n + 1]>>
          ELSE Str(n \div 10) \o <<Digits[(n % 10) + 1]>>

IsDigit(c) == \E d \in 1..10 : Digits[d] = c
\* the code point order of two digit characters
Ord(c) == CHOOSE d \in 1..10 : Digits[d] = c

RECURSIVE StrLess(_, _)
\* a < b for two Python strings of digits (lexicographic by code point)
StrLess(a, b) ==
    IF b = <<>> THEN FALSE
    ELSE IF a = <<>> THEN TRUE
    ELSE IF Head(a) = Head(b) THEN StrLess(Tail(a), Tail(b))
    ELSE Ord(Head(a)) < Ord(Head(b))

RECURSIVE IntOf(_)
\* int(s) for a non-empty string of digits
IntOf(s) == IF Len(s) = 1 THEN Ord(s[1]) - 1
            ELSE 10 * IntOf(SubSeq(s, 1, Len(s) - 1)) + (Ord(s[Len(s)]) - 1)

\* int(x["id"].split("_")[1]), line 79: the value, or the exception raised
IdKey(id) ==
    LET parts == SplitOn(id, "_", <<>>)
    IN  IF Len(parts) < 2 THEN [raised |-> "IndexError", value |-> 0]
        ELSE IF parts[2] = <<>> \/ \E k \in 1..Len(parts[2]) : ~IsDigit(parts[2][k])
             THEN [raised |-> "ValueError", value |-> 0]
        ELSE [raised |-> "", value |-> IntOf(parts[2])]

----------------------------------------------------------------------------
\* The candidate file: records of the JSON document.

Scenarios == {"codegeneration", "selfrepair", "testoutputprediction", "codeexecution"}

\* One record of the document.  t is its JSON type: "list" (its entries are
\* lst), "dict" (its keys, in document order, are keys; code_list and
\* pred_list both read lst), "str" (its characters are chars) or "num".
Rec(t, keys, qid, tid, id, lst, chars) ==
    [t |-> t, keys |-> keys, question_id |-> qid, test_id |-> tid, id |-> id,
     lst |-> lst, chars |-> chars]

ListRec(lst) == Rec("list", <<>>, 0, 0, <<>>, lst, <<>>)
StrRec(chars) == Rec("str", <<>>, 0, 0, <<>>, <<>>, chars)
NumRec == Rec("num", <<>>, 0, 0, <<>>, <<>>, <<>>)

AllKeys == <<"question_id", "test_id", "id", "code_list", "pred_list">>
\* a mapping with every key; its id is s_<k>
DictRec(qid, k, lst) ==
    Rec("dict", AllKeys, qid, k, <<"s", "_">> \o Str(k), lst, <<>>)

HasKey(rec, key) == \E i \in 1..Len(rec.keys) : rec.keys[i] = key

\* the name of a key as a Python str
KeyChars(key) ==
    CASE key = "question_id" -> <<"q","u","e","s","t","i","o","n","_","i","d">>
      [] key = "test_id"     -> <<"t","e","s","t","_","i","d">>
      [] key = "id"          -> <<"i","d">>
      [] key = "code_list"   -> <<"c","o","d","e","_","l","i","s","t">>
      [] key = "pred_list"   -> <<"p","r","e","d","_","l","i","s","t">>

\* candidate texts
TValidNL == <<"x", NL>>
TInvalid == <<"(">>
TFenced == FenceOpen \o <<"x", "x">> \o FenceClose
TSurrogate == <<SUR>>

\* candidate lists
PMixed == <<S(TInvalid), S(TValidNL)>>
PFenced == <<S(TFenced)>>
PNum == <<Num>>
PSurrogate == <<S(TSurrogate)>>

\* question ids, test ids and id numbers the records and instances use
Ids == {2, 10}

\* the records a document is drawn from
RecordPool ==
    {ListRec(p) : p \in {PMixed, PFenced, PNum}}
    \cup {DictRec(2, 2, PMixed), DictRec(2, 2, PFenced), DictRec(2, 10, PFenced),
          DictRec(10, 2, PSurrogate), DictRec(10, 10, PFenced), DictRec(2, 2, PNum)}
    \cup {Rec("dict", <<"question_id", "test_id", "id">>, 10, 10,
              <<"s", "_", "1", "0">>, <<>>, <<>>)}
    \cup {Rec("dict", <<"code_list", "pred_list">>, 0, 0, <<>>, PFenced, <<>>)}
    \cup {Rec("dict", AllKeys, 2, 2, <<"s">>, PMixed, <<>>)}
    \cup {StrRec(<<"(", "x">>), NumRec}

RECURSIVE SeqsUpTo(_, _)
\* the sequences over S of length at most n
SeqsUpTo(S_, n) ==
    IF n = 0 THEN {<<>>}
    ELSE SeqsUpTo(S_, n - 1)
         \cup {Append(q, x) : q \in SeqsUpTo(S_, n - 1), x \in S_}

----------------------------------------------------------------------------
\* Alignment of a list of mappings, lines 60-80.

\* the key the scenario's sort reads is missing or malformed: the exception
\* the key function raises on rec, "" if none
KeyRaises(scen, rec) ==
    IF scen \in {"codegeneration", "selfrepair"}
    THEN IF HasKey(rec, "question_id") THEN "" ELSE "KeyError"
    ELSE IF scen = "testoutputprediction"
    THEN IF HasKey(rec, "question_id") /\ HasKey(rec, "test_id") THEN "" ELSE "KeyError"
    ELSE IF ~HasKey(rec, "id") THEN "KeyError"
    ELSE IdKey(rec.id).raised

\* the keys compared as numbers where the code compares their str()
KeyLE_numeric(scen, a, b) ==
    IF scen \in {"codegeneration", "selfrepair"}
    THEN a.question_id <= b.question_id
    ELSE IF scen = "testoutputprediction"
    THEN \/ a.question_id < b.question_id
         \/ a.question_id = b.question_id /\ a.test_id <= b.test_id
    ELSE IdKey(a.id).value <= IdKey(b.id).value

\* key(a) <= key(b) for the scenario's key function (lines 67, 73, 79)
KeyLE(scen, a, b) ==
    IF scen \in {"codegeneration", "selfrepair"}
    THEN ~StrLess(Str(b.question_id), Str(a.question_id))
    ELSE IF scen = "testoutputprediction"
    THEN \/ StrLess(Str(a.question_id), Str(b.question_id))
         \/ /\ Str(a.question_id) = Str(b.question_id)
            /\ ~StrLess(Str(b.test_id), Str(a.test_id))
    ELSE IdKey(a.id).value <= IdKey(b.id).value

RECURSIVE InsertStable(_, _, _)
\* x placed after every element whose key is not greater than its own
InsertStable(scen, sortedSeq, x) ==
    IF sortedSeq = <<>> THEN <<x>>
    ELSE IF KeyLE(scen, Head(sortedSeq), x)
         THEN <<Head(sortedSeq)>> \o InsertStable(scen, Tail(sortedSeq), x)
    ELSE <<x>> \o sortedSeq

RECURSIVE SortPrefix(_, _, _)
SortPrefix(scen, recs, n) ==
    IF n = 0 THEN <<>>
    ELSE InsertStable(scen, SortPrefix(scen, recs, n - 1), recs[n])

\* the records in descending key order
sorted_reversed(scen, recs) ==
    [i \in 1..Len(recs) |-> SortPrefix(scen, recs, Len(recs))[Len(recs) + 1 - i]]

\* sorted(custom_outputs, key=...): ascending and stable
sorted_by_key(scen, recs) == SortPrefix(scen, recs, Len(recs))

\* the field the scenario reads the candidates from
CandidateField(scen) ==
    IF scen \in {"codegeneration", "selfrepair"} THEN "code_list" ELSE "pred_list"

\* [clean_code_output(output) for output in ...]: re.search raises TypeError
\* on a value that is no str
CleanList(lst) == [j \in 1..Len(lst) |-> S(clean_code_output(lst[j].s))]
CleanRaises(lst) == \E j \in 1..Len(lst) : lst[j].t # "str"

\* The dict branch of main(), lines 63-80: the key function runs over every
\* record first, then each record, in sorted order, is read and cleaned.
Align(scen, recs) ==
    LET badKey == {i \in 1..Len(recs) : KeyRaises(scen, recs[i]) # ""}
        firstBadKey == CHOOSE i \in badKey : \A m \in badKey : i <= m
    IN  IF badKey # {}
        THEN [raised |-> KeyRaises(scen, recs[firstBadKey]), where |-> "main", out |-> <<>>]
        ELSE
        LET srt == sorted_by_key(scen, recs)
            noField == {i \in 1..Len(srt) : ~HasKey(srt[i], CandidateField(scen))}
            noStr == {i \in 1..Len(srt) : CleanRaises(srt[i].lst)}
            bad == noField \cup noStr
            firstBad == CHOOSE i \in bad : \A m \in bad : i <= m
        IN  IF bad # {}
            THEN IF firstBad \in noField
                 THEN [raised |-> "KeyError", where |-> "main", out |-> <<>>]
                 ELSE [raised |-> "TypeError", where |-> "clean_code_output", out |-> <<>>]
            ELSE [raised |-> "", where |-> "",
                  out |-> [i \in 1..Len(srt) |-> ListRec(CleanList(srt[i].lst))]]

----------------------------------------------------------------------------
\* The validity filter, lines 83-86.

\* for output in outputs_list: the values a record yields when iterated (a
\* str yields its characters, a dict its keys); a number is not iterable
Iterate(rec) ==
    IF rec.t = "list" THEN rec.lst
    ELSE IF rec.t = "str" THEN [i \in 1..Len(rec.chars) |-> S(<<rec.chars[i]>>)]
    ELSE IF rec.t = "dict" THEN [i \in 1..Len(rec.keys) |-> S(KeyChars(rec.keys[i]))]
    ELSE <<>>

RECURSIVE SelectValid(_)
\* [output for output in outputs_list if is_valid_python(output)]
SelectValid(outs) ==
    IF outs = <<>> THEN <<>>
    ELSE IF is_valid_python(Head(outs)).value
         THEN <<Head(outs)>> \o SelectValid(Tail(outs))
    ELSE SelectValid(Tail(outs))

\* the exception the filter raises on one record, "" if none
FilterRaises(rec) ==
    IF rec.t = "num" THEN [exc |-> "TypeError", where |-> "main"]
    ELSE LET bad == {j \in 1..Len(Iterate(rec)) :
                        is_valid_python(Iterate(rec)[j]).raised # ""}
             first == CHOOSE j \in bad : \A m \in bad : j <= m
         IN  IF bad = {} THEN [exc |-> "", where |-> ""]
             ELSE [exc |-> is_valid_python(Iterate(rec)[first]).raised,
                   where |-> "is_valid_python"]

\* a filter that also drops an instance left with no valid candidate
FilteredOutputsDropEmpty(recs) ==
    SelectSeq([i \in 1..Len(recs) |-> ListRec(SelectValid(Iterate(recs[i])))],
              LAMBDA r : r.lst # <<>>)

\* the nested comprehension of lines 83-86 on a collection it does not raise on
FilteredOutputs(recs) ==
    [i \in 1..Len(recs) |-> ListRec(SelectValid(Iterate(recs[i])))]

----------------------------------------------------------------------------
\* External collaborators, at their interface.

\* instance.insert_output(custom_output, custom_output) on the instance with
\* question id qid
insert_output(qid, outputs, extracted) ==
    [question_id |-> qid, output_list |-> outputs, code_list |-> extracted]

\* sort_and_extract_save_results: one (outputs, extracted) pair per save result
ExtractCombined(results) ==
    [i \in 1..Len(results) |-> <<results[i].output_list, results[i].code_list>>]

\* instance.insert_output_evaluation(outputs_list, extracted_list, graded_list, metadata)
insert_output_evaluation(qid, outputs, extracted, gradedList, meta) ==
    [question_id |-> qid, output_list |-> outputs, code_list |-> extracted,
     graded_list |-> gradedList, metadata |-> meta]

Min(a, b) == IF a <= b THEN a ELSE b

PostFilter == {"insert", "grade", "evalzip", "write", "done"}
PostInsert == {"grade", "evalzip", "write", "done"}
NoErr == [exc |-> "", where |-> ""]
NoFiles == [exists |-> FALSE, results |-> <<>>, eval_all |-> <<>>]

----------------------------------------------------------------------------
\* main(), lines 47-131, one action per phase.

Init ==
    /\ text = <<>> /\ cleaned = <<>> /\ cleaned2 = <<>> /\ cpc = "off"
    /\ scenario \in Scenarios
    /\ benchmark \in SeqsUpTo(Ids, MaxBench)
    /\ file \in SeqsUpTo(RecordPool, MaxRecs)
    /\ custom_outputs = <<>>
    /\ prefilter = <<>>
    /\ save_results = <<>>
    /\ combined_results = <<>>
    /\ graded = <<>>
    /\ metadatas = <<>>
    /\ save_eval_results = <<>>
    /\ written = NoFiles
    /\ err = NoErr
    /\ pc = "load"

\* the run ends with an uncaught exception
Abort(exc, where) ==
    /\ pc' = "aborted"
    /\ err' = [exc |-> exc, where |-> where]

\* lines 52-80: json.load, the shape checks and the dict branch
Load ==
    /\ pc = "load"
    /\ IF file = <<>>
       THEN Abort("IndexError", "main") /\ UNCHANGED custom_outputs
       ELSE IF file[1].t = "list"
       THEN IF \A i \in 1..Len(file) : file[i].t = "list"
            THEN custom_outputs' = file /\ pc' = "filter" /\ UNCHANGED err
            ELSE Abort("AssertionError", "main") /\ UNCHANGED custom_outputs
       ELSE IF file[1].t = "dict"
       THEN IF \A i \in 1..Len(file) : file[i].t = "dict"
            THEN IF Align(scenario, file).raised = ""
                 THEN /\ custom_outputs' = Align(scenario, file).out
                      /\ pc' = "filter" /\ UNCHANGED err
                 ELSE /\ Abort(Align(scenario, file).raised, Align(scenario, file).where)
                      /\ UNCHANGED custom_outputs
            ELSE Abort("AssertionError", "main") /\ UNCHANGED custom_outputs
       ELSE custom_outputs' = file /\ pc' = "filter" /\ UNCHANGED err
    /\ UNCHANGED <<cleanVars, scenario, benchmark, file, prefilter, save_results,
                   combined_results, graded, metadatas, save_eval_results, written>>

\* lines 83-86
Filter ==
    /\ pc = "filter"
    /\ LET bad == {i \in 1..Len(custom_outputs) : FilterRaises(custom_outputs[i]).exc # ""}
           first == CHOOSE i \in bad : \A m \in bad : i <= m
       IN  IF bad = {}
           THEN /\ custom_outputs' = FilteredOutputs(custom_outputs)
                /\ prefilter' = custom_outputs
                /\ pc' = "insert" /\ UNCHANGED err
           ELSE /\ Abort(FilterRaises(custom_outputs[first]).exc,
                         FilterRaises(custom_outputs[first]).where)
                /\ UNCHANGED <<custom_outputs, prefilter>>
    /\ UNCHANGED <<cleanVars, scenario, benchmark, file, save_results,
                   combined_results, graded, metadatas, save_eval_results, written>>

\* lines 88-91: zip stops at the shorter of benchmark and custom_outputs
InsertOutputs ==
    /\ pc = "insert"
    /\ save_results' =
         [i \in 1..Min(Len(benchmark), Len(custom_outputs)) |->
            insert_output(benchmark[i], custom_outputs[i].lst, custom_outputs[i].lst)]
    /\ pc' = "grade"
    /\ UNCHANGED <<cleanVars, scenario, benchmark, file, custom_outputs, prefilter,
                   combined_results, graded, metadatas, save_eval_results, written, err>>

\* lines 93-99: the collaborators return one graded entry (and, for code
\* generation, one metadata entry) per combined result or per instance
Grade ==
    /\ pc = "grade"
    /\ combined_results' = ExtractCombined(save_results)
    /\ \E gl \in {Len(save_results), Len(benchmark)} :
         graded' = [i \in 1..gl |-> "graded"]
    /\ IF scenario = "codegeneration"
       THEN \E ml \in {Len(save_results), Len(benchmark)} :
              metadatas' = [i \in 1..ml |-> "meta"]
       ELSE metadatas' = <<>>
    /\ pc' = "evalzip"
    /\ UNCHANGED <<cleanVars, scenario, benchmark, file, custom_outputs, prefilter,
                   save_results, save_eval_results, written, err>>

\* the number of tuples the zip of lines 104-106 or 113-115 yields
ZipLen ==
    IF scenario = "codegeneration"
    THEN Min(Min(Len(benchmark), Len(combined_results)), Min(Len(graded), Len(metadatas)))
    ELSE Min(Min(Len(benchmark), Len(combined_results)), Len(graded))

\* lines 98-116
InsertEvaluations ==
    /\ pc = "evalzip"
    /\ save_eval_results' =
         [i \in 1..ZipLen |->
            insert_output_evaluation(benchmark[i], combined_results[i][1],
                combined_results[i][2], graded[i],
                IF scenario = "codegeneration" THEN metadatas[i] ELSE "none")]
    /\ pc' = "write"
    /\ UNCHANGED <<cleanVars, scenario, benchmark, file, custom_outputs, prefilter,
                   save_results, combined_results, graded, metadatas, written, err>>

\* lines 124-131
WriteFiles ==
    /\ pc = "write"
    /\ written' = [exists |-> TRUE, results |-> save_results,
                   eval_all |-> save_eval_results]
    /\ pc' = "done"
    /\ UNCHANGED <<cleanVars, scenario, benchmark, file, custom_outputs, prefilter,
                   save_results, combined_results, graded, metadatas,
                   save_eval_results, err>>

Next == Load \/ Filter \/ InsertOutputs \/ Grade \/ InsertEvaluations \/ WriteFiles

Spec == Init /\ [][Next]_vars

----------------------------------------------------------------------------
\* The sanitizer on its own: clean_code_output applied once and again.

\* the pieces the input texts are built from
Frags == {FenceOpen, FenceClose, <<"x">>, <<"(">>, <<" ">>, <<NL>>, <<BT>>}

RECURSIVE TextsUpTo(_)
\* the concatenations of at most n fragments
TextsUpTo(n) ==
    IF n = 0 THEN {<<>>}
    ELSE TextsUpTo(n - 1) \cup {t \o f : t \in TextsUpTo(n - 1), f \in Frags}

InitClean ==
    /\ text \in TextsUpTo(MaxFrags)
    /\ cleaned = <<>> /\ cleaned2 = <<>> /\ cpc = "start"
    /\ scenario = "codegeneration" /\ benchmark = <<>> /\ file = <<>>
    /\ custom_outputs = <<>> /\ prefilter = <<>> /\ save_results = <<>>
    /\ combined_results = <<>> /\ graded = <<>> /\ metadatas = <<>>
    /\ save_eval_results = <<>> /\ written = NoFiles /\ err = NoErr
    /\ pc = "off"

CleanOnce ==
    /\ cpc = "start"
    /\ cleaned' = clean_code_output(text)
    /\ cpc' = "once"
    /\ UNCHANGED <<text, cleaned2, mainVars>>

CleanTwice ==
    /\ cpc = "once"
    /\ cleaned2' = clean_code_output(cleaned)
    /\ cpc' = "twice"
    /\ UNCHANGED <<text, cleaned, mainVars>>

NextClean == CleanOnce \/ CleanTwice

SpecClean == InitClean /\ [][NextClean]_vars

----------------------------------------------------------------------------
\* Properties of the sanitizer.

\* the positions of t where an opening fence that is later closed starts
ClosedOpens(t) ==
    {i \in 1..Len(t) :
        /\ MatchesAt(FenceOpen, t, i)
        /\ \E j \in (i + Len(FenceOpen))..Len(t) : MatchesAt(FenceClose, t, j)}

\* t contains a fenced code block
HasFencedBlock(t) == ClosedOpens(t) # {}

\* the text between the first opening fence and the closing fence nearest to it
EnclosedContent(t) ==
    LET i == CHOOSE a \in ClosedOpens(t) : \A b \in ClosedOpens(t) : a <= b
        closes == {j \in (i + Len(FenceOpen))..Len(t) : MatchesAt(FenceClose, t, j)}
        j == CHOOSE a \in closes : \A b \in closes : a <= b
    IN  SubSeq(t, i + Len(FenceOpen), j - 1)

\* s without its leading and trailing whitespace
Trimmed(s) ==
    LET ink == {k \in 1..Len(s) : s[k] \notin Whitespace}
    IN  IF ink = {} THEN <<>>
        ELSE SubSeq(s, CHOOSE a \in ink : \A b \in ink : a <= b,
                       CHOOSE a \in ink : \A b \in ink : a >= b)

\* C4: clean_code_output is idempotent: applied to its own result it returns
\* that result, for every input text.
C4_CleanIdempotent == cpc = "twice" => cleaned2 = cleaned

\* a nested fence: the first result still holds an opening fence, and the
\* second application has been made
C4_Witness ==
    /\ cpc = "twice"
    /\ \E i \in 1..Len(cleaned) : MatchesAt(FenceOpen, cleaned, i)
    /\ cleaned # text

----------------------------------------------------------------------------
\* Properties of the pipeline.

AllList(f) == f # <<>> /\ \A i \in 1..Len(f) : f[i].t = "list"
AllDict(f) == f # <<>> /\ \A i \in 1..Len(f) : f[i].t = "dict"

\* the permutations of 1..n
Perms(n) == {p \in [1..n -> 1..n] : \A i, j \in 1..n : p[i] = p[j] => i = j}

\* a < b for two strings of digits: they differ first at position k, where a
\* ends or holds the smaller character
LexLess(a, b) ==
    \E k \in 1..Len(b) :
        /\ \A m \in 1..(k - 1) : m <= Len(a) /\ a[m] = b[m]
        /\ \/ k > Len(a)
           \/ a[k] # b[k] /\ Ord(a[k]) < Ord(b[k])

\* the scenario's sort key of a is less than that of b, as section 4.2 of the
\* specification tabulates the keys
SortKeyLess(scen, a, b) ==
    IF scen \in {"codegeneration", "selfrepair"}
    THEN LexLess(Str(a.question_id), Str(b.question_id))
    ELSE IF scen = "testoutputprediction"
    THEN \/ LexLess(Str(a.question_id), Str(b.question_id))
         \/ /\ a.question_id = b.question_id
            /\ LexLess(Str(a.test_id), Str(b.test_id))
    ELSE IdKey(a.id).value < IdKey(b.id).value

\* no two records of the document have the same sort key
DistinctSortKeys ==
    \A i, j \in 1..Len(file) :
        i # j => SortKeyLess(scenario, file[i], file[j])
                 \/ SortKeyLess(scenario, file[j], file[i])

\* the number of records and instances differ, in a document of one shape
CountMismatch ==
    /\ AllList(file) \/ AllDict(file)
    /\ Len(file) # Len(benchmark)

\* C1: when the document has a different number of records than the benchmark
\* has instances, the run aborts: insert_output is called on no instance and
\* nothing is written.
C1_CountMismatchAborts ==
    CountMismatch => save_results = <<>> /\ ~written.exists

\* one record per instance, the records' question ids a permutation of the
\* instances'
OneRecordPerInstance ==
    /\ AllDict(file)
    /\ Len(file) = Len(benchmark)
    /\ \A i \in 1..Len(file) : HasKey(file[i], "question_id")
    /\ \A i, j \in 1..Len(benchmark) : benchmark[i] = benchmark[j] => i = j
    /\ {file[i].question_id : i \in 1..Len(file)}
         = {benchmark[i] : i \in 1..Len(benchmark)}

\* the record of the document whose question_id is q
RecordOf(q) == file[CHOOSE i \in 1..Len(file) : file[i].question_id = q]

\* instance i was handed the candidates of the record that carries its id
PairedById ==
    /\ Len(save_results) = Len(benchmark)
    /\ \A i \in 1..Len(benchmark) :
          /\ save_results[i].question_id = benchmark[i]
          /\ save_results[i].output_list
               = SelectValid(CleanList(RecordOf(benchmark[i]).lst))

\* the benchmark holds its instances in ascending order of their records'
\* sort keys
BenchmarkInKeyOrder ==
    \A i, j \in 1..Len(benchmark) :
        i < j => SortKeyLess(scenario, RecordOf(benchmark[i]), RecordOf(benchmark[j]))

\* C2 as stated: with one mapping per instance, insert_output on Benchmark[i]
\* receives the list of the record whose question_id is Benchmark[i]'s, in
\* whatever order the benchmark holds its instances.
C2_PairedInAnyOrder ==
    (pc \in PostInsert /\ OneRecordPerInstance) => PairedById

\* C2 amended: the same, for a benchmark that holds its instances in ascending
\* order of the scenario's sort key of their records.
C2_PairedWhenKeyOrdered ==
    (pc \in PostInsert /\ OneRecordPerInstance /\ BenchmarkInKeyOrder) => PairedById

\* two instances whose records come in the opposite order in the document and
\* carry different candidates, paired after the sort
C2_Witness ==
    /\ pc = "done"
    /\ OneRecordPerInstance /\ BenchmarkInKeyOrder
    /\ Len(benchmark) = 2
    /\ file[1].question_id = benchmark[2]
    /\ save_results[1].output_list # save_results[2].output_list

\* the document's records in the order p
Permuted(p) == [i \in 1..Len(file) |-> file[p[i]]]

\* the aligned lists are the records' cleaned lists in ascending key order,
\* and every reordering of the document aligns to the same lists
AlignedByKey ==
    /\ Len(custom_outputs) = Len(file)
    /\ \E p \in Perms(Len(file)) :
          /\ \A i, j \in 1..Len(file) :
                i < j => ~SortKeyLess(scenario, file[p[j]], file[p[i]])
          /\ \A i \in 1..Len(file) :
                custom_outputs[i].lst = CleanList(file[p[i]].lst)
    /\ \A p \in Perms(Len(file)) :
          Align(scenario, Permuted(p)).out = custom_outputs

\* C3 as stated: a document of N mappings aligns to N lists in ascending order
\* of the scenario's sort key, the same for every permutation of its records.
C3_AlignedAnyRecords ==
    (pc = "filter" /\ AllDict(file)) => AlignedByKey

\* C3 amended: the same, for records whose sort keys are pairwise distinct.
C3_AlignedDistinctKeys ==
    (pc = "filter" /\ AllDict(file) /\ DistinctSortKeys) => AlignedByKey

\* test-output-prediction: two records with the same question_id, given in
\* descending test_id order, aligned to different lists
C3_Witness ==
    /\ pc = "filter" /\ AllDict(file) /\ DistinctSortKeys
    /\ scenario = "testoutputprediction"
    /\ Len(file) = 2
    /\ file[1].question_id = file[2].question_id
    /\ SortKeyLess(scenario, file[2], file[1])
    /\ custom_outputs[1] # custom_outputs[2]

\* C6: is_valid_python never raises: no run ends with an exception that left
\* is_valid_python.
C6_ValidityNeverRaises == err.where # "is_valid_python"

\* the keys the scenario reads from a mapping
RequiredKeys(scen) ==
    IF scen = "codegeneration" \/ scen = "selfrepair" THEN {"question_id", "code_list"}
    ELSE IF scen = "testoutputprediction" THEN {"question_id", "test_id", "pred_list"}
    ELSE {"id", "pred_list"}

\* the document is empty, or not all lists nor all mappings, or holds a
\* mapping without a key the scenario reads
ShapeViolation ==
    \/ file = <<>>
    \/ ~AllList(file) /\ ~AllDict(file)
    \/ \E i \in 1..Len(file) :
          /\ file[i].t = "dict"
          /\ \E key \in RequiredKeys(scenario) : ~HasKey(file[i], key)

\* C7: a document with a shape violation aborts the run before insert_output
\* is called on any instance and before any file is written.
C7_ShapeViolationAborts ==
    ShapeViolation => save_results = <<>> /\ ~written.exists

\* the positions of a list whose entry parses
ValidAt(lst) == {k \in 1..Len(lst) : ParseOutcome(lst[k]) = "ok"}

\* out is lst restricted to its valid entries, in order
KeepsExactlyValid(out, lst) ==
    /\ Len(out) = Len(lst) - Cardinality({k \in 1..Len(lst) : ParseOutcome(lst[k]) # "ok"})
    /\ \A j \in 1..Len(out) :
          out[j] = lst[CHOOSE k \in ValidAt(lst) :
                          Cardinality({m \in ValidAt(lst) : m <= k}) = j]

\* C8: after the filter every instance's list is the subsequence of valid
\* entries of the list that entered it, in order; the number of lists is
\* unchanged and a list with no valid entry stays, empty.
C8_FilterKeepsValid ==
    pc \in PostFilter =>
        /\ Len(custom_outputs) = Len(prefilter)
        /\ \A i \in 1..Len(prefilter) :
              KeepsExactlyValid(custom_outputs[i].lst, Iterate(prefilter[i]))

\* two instances: one lost an invalid entry and kept a valid one, the other
\* lost every entry and kept an empty list
C8_Witness ==
    /\ pc \in PostFilter
    /\ \E i \in 1..Len(prefilter) :
          /\ custom_outputs[i].lst # <<>>
          /\ Len(custom_outputs[i].lst) < Len(Iterate(prefilter[i]))
    /\ \E i \in 1..Len(prefilter) :
          /\ custom_outputs[i].lst = <<>>
          /\ Iterate(prefilter[i]) # <<>>

\* the candidate strings of the document
RawCandidates ==
    UNION {{file[i].lst[j] : j \in 1..Len(file[i].lst)} : i \in 1..Len(file)}

\* C9: every candidate passed to insert_output is clean_code_output of a raw
\* candidate of the document and parses, in a document of lists as in a
\* document of mappings.
C9_InsertedAreCleaned ==
    (pc \in PostInsert /\ (AllList(file) \/ AllDict(file))) =>
        \A i \in 1..Len(save_results) :
            \A j \in 1..Len(save_results[i].output_list) :
                /\ ParseOutcome(save_results[i].output_list[j]) = "ok"
                /\ \E r \in RawCandidates :
                      /\ r.t = "str"
                      /\ save_results[i].output_list[j] = S(clean_code_output(r.s))

\* the collections zipped at lines 104-106 or 113-115 do not all have the
\* benchmark's length
ZipMismatch ==
    \/ Len(combined_results) # Len(benchmark)
    \/ Len(graded) # Len(benchmark)
    \/ scenario = "codegeneration" /\ Len(metadatas) # Len(benchmark)

\* C10: when the zipped collections do not all have the benchmark's length the
\* run aborts: insert_output_evaluation is called on no instance and no file
\* is written.
C10_ZipMismatchAborts ==
    (pc \in {"write", "done"} /\ ZipMismatch) =>
        save_eval_results = <<>> /\ ~written.exists

====
